---- MODULE Spec2Model ----
(***************************************************************************)
(* Model of src/src/index.ts (ghost-digest): one run of run(), which       *)
(* resolves the anchor date, browses the posts, filters them by window and *)
(* excluded tags, sorts and renders them, and creates the draft post.      *)
(*                                                                         *)
(* Strings that the code inspects (period, excluded_tags, tags, dates) are *)
(* sequences of one-character strings.  Instants are whole hours since the *)
(* Unix epoch; a zone is its offset from UTC in hours; a moment is the     *)
(* record [valid, t, zone].                                                *)
(***************************************************************************)
EXTENDS Integers, Sequences, FiniteSets, TLC

\* Largest number of posts one browse response carries in the model.
MaxPosts == 2

\* post.tags of a post that has none: null.  Tag lists are sequences of
\* [name |-> ...] records, and null is a value apart from all of them.
Null == <<[null |-> TRUE]>>

------------------------------------------------------------------------------
\* Characters and strings

Digits == <<"0", "1", "2", "3", "4", "5", "6", "7", "8", "9">>

DigitChar(n) == Digits[n + 1]

IsDigit(c) == \E i \in 1..10 : Digits[i] = c

DigitValue(c) == (CHOOSE i \in 1..10 : Digits[i] = c) - 1

Lowers == <<"a", "b", "d", "e", "i", "k", "l", "w", "y">>

Uppers == <<"A", "B", "D", "E", "I", "K", "L", "W", "Y">>

\* String.prototype.toLowerCase on one character
LowerChar(c) ==
    IF \E i \in 1..Len(Uppers) : Uppers[i] = c
    THEN Lowers[CHOOSE i \in 1..Len(Uppers) : Uppers[i] = c]
    ELSE c

\* String.prototype.toUpperCase on one character
UpperChar(c) ==
    IF \E i \in 1..Len(Lowers) : Lowers[i] = c
    THEN Uppers[CHOOSE i \in 1..Len(Lowers) : Lowers[i] = c]
    ELSE c

toLowerCase(s) == [i \in 1..Len(s) |-> LowerChar(s[i])]

\* period.charAt(0).toUpperCase() + period.slice(1)
Capitalize(s) == [i \in 1..Len(s) |-> IF i = 1 THEN UpperChar(s[i]) ELSE s[i]]

\* String.prototype.trim
RECURSIVE TrimLeft(_)
TrimLeft(s) == IF Len(s) > 0 /\ Head(s) = " " THEN TrimLeft(Tail(s)) ELSE s

RECURSIVE TrimRight(_)
TrimRight(s) ==
    IF Len(s) > 0 /\ s[Len(s)] = " " THEN TrimRight(SubSeq(s, 1, Len(s) - 1)) ELSE s

trim(s) == TrimRight(TrimLeft(s))

\* String.prototype.split(","): the pieces between the commas; "" gives [""]
RECURSIVE SplitFrom(_, _, _)
SplitFrom(s, i, cur) ==
    IF i > Len(s) THEN <<cur>>
    ELSE IF s[i] = "," THEN <<cur>> \o SplitFrom(s, i + 1, <<>>)
    ELSE SplitFrom(s, i + 1, Append(cur, s[i]))

split(s) == SplitFrom(s, 1, <<>>)

\* input.split(",").map((tag) => tag.trim())
SplitTrim(s) == [i \in 1..Len(split(s)) |-> trim(split(s)[i])]

\* Array.prototype.includes
includes(arr, x) == \E i \in 1..Len(arr) : arr[i] = x

\* Array.prototype.join(","), as the sequence of its pieces
RECURSIVE join(_)
join(arr) ==
    IF Len(arr) = 0 THEN <<>>
    ELSE IF Len(arr) = 1 THEN <<arr[1]>>
    ELSE <<arr[1], ",">> \o join(Tail(arr))

------------------------------------------------------------------------------
\* Calendar: the proleptic Gregorian calendar moment uses

IsLeap(y) == (y % 4 = 0 /\ y % 100 # 0) \/ y % 400 = 0

DaysInMonth(y, m) ==
    IF m = 2 THEN (IF IsLeap(y) THEN 29 ELSE 28)
    ELSE IF m \in {4, 6, 9, 11} THEN 30 ELSE 31

\* Days since 1970-01-01 of the civil date y-m-d
DaysFromCivil(y, m, d) ==
    LET yy  == IF m <= 2 THEN y - 1 ELSE y
        era == yy \div 400
        yoe == yy - era * 400
        mp  == IF m > 2 THEN m - 3 ELSE m + 9
        doy == (153 * mp + 2) \div 5 + d - 1
        doe == yoe * 365 + yoe \div 4 - yoe \div 100 + doy
    IN  era * 146097 + doe - 719468

\* The civil date of a day number, as [y, m, d]
CivilFromDays(z) ==
    LET zz  == z + 719468
        era == zz \div 146097
        doe == zz - era * 146097
        yoe == (doe - doe \div 1460 + doe \div 36524 - doe \div 146096) \div 365
        doy == doe - (365 * yoe + yoe \div 4 - yoe \div 100)
        mp  == (5 * doy + 2) \div 153
        d   == doy - (153 * mp + 2) \div 5 + 1
        m   == IF mp < 10 THEN mp + 3 ELSE mp - 9
        y   == yoe + era * 400
    IN  [y |-> IF m <= 2 THEN y + 1 ELSE y, m |-> m, d |-> d]

------------------------------------------------------------------------------
\* moment / moment-timezone

InvalidMoment == [valid |-> FALSE, t |-> 0, zone |-> 0]

\* The calendar day number a moment shows in its own zone
DayOf(mom) == (mom.t + mom.zone) \div 24

\* moment#format("YYYY-MM-DD")
FormatDate(mom) ==
    LET c == CivilFromDays(DayOf(mom))
    IN  << DigitChar((c.y \div 1000) % 10), DigitChar((c.y \div 100) % 10),
           DigitChar((c.y \div 10) % 10), DigitChar(c.y % 10), "-",
           DigitChar(c.m \div 10), DigitChar(c.m % 10), "-",
           DigitChar(c.d \div 10), DigitChar(c.d % 10) >>

\* moment#format("M/D")
FormatMD(mom) ==
    IF mom.valid
    THEN LET c == CivilFromDays(DayOf(mom)) IN <<c.m, "/", c.d>>
    ELSE <<"Invalid date">>

\* /^\d{4}-\d{2}-\d{2}$/
MatchesDateRegex(s) ==
    /\ Len(s) = 10
    /\ \A i \in {1, 2, 3, 4, 6, 7, 9, 10} : IsDigit(s[i])
    /\ s[5] = "-"
    /\ s[8] = "-"

\* Parsing "YYYY-MM-DD" at midnight of the zone; a date that is not on the
\* calendar gives an invalid moment.
ParseDate(s, zone) ==
    IF ~MatchesDateRegex(s) THEN InvalidMoment
    ELSE LET y == DigitValue(s[1]) * 1000 + DigitValue(s[2]) * 100
                    + DigitValue(s[3]) * 10 + DigitValue(s[4])
             m == DigitValue(s[6]) * 10 + DigitValue(s[7])
             d == DigitValue(s[9]) * 10 + DigitValue(s[10])
         IN  IF m \in 1..12 /\ d >= 1 /\ d <= DaysInMonth(y, m)
             THEN [valid |-> TRUE, t |-> DaysFromCivil(y, m, d) * 24 - zone, zone |-> zone]
             ELSE InvalidMoment

\* moment#tz(zone): the same instant shown in another zone
InZone(mom, zone) == [mom EXCEPT !.zone = zone]

\* moment#startOf("day"); also set({hour: 0, minute: 0, second: 0, millisecond: 0})
StartOfDay(mom) ==
    IF mom.valid THEN [mom EXCEPT !.t = DayOf(mom) * 24 - mom.zone] ELSE mom

\* moment#add(n, "day"), moment#subtract(n, "day") with a negative n
AddDays(mom, n) == IF mom.valid THEN [mom EXCEPT !.t = mom.t + n * 24] ELSE mom

isSameOrAfter(a, b) == a.valid /\ b.valid /\ a.t >= b.t

isBefore(a, b) == a.valid /\ b.valid /\ a.t < b.t

isAfter(a, b) == a.valid /\ b.valid /\ a.t > b.t

------------------------------------------------------------------------------
\* Inputs of a run

Str_daily == <<"d", "a", "i", "l", "y">>

Str_weekly == <<"w", "e", "e", "k", "l", "y">>

\* The period input: the two period words (one in mixed case), a calendar
\* date, a date that is not on the calendar, another word, and nothing.
Periods ==
    { Str_daily,
      <<"W", "e", "e", "k", "l", "y">>,
      <<"2", "0", "2", "4", "-", "0", "2", "-", "2", "9">>,
      <<"2", "0", "2", "4", "-", "0", "2", "-", "3", "0">>,
      <<"b", "a", "d">>,
      <<>> }

TagA == <<"A">>

TagB == <<"B">>

\* The excluded_tags input: not set, and " B"
ExcludedTagsInputs == { <<>>, <<" ", "B">> }

\* The tags input left unset: "Digest"
tags == <<"D", "i", "g", "e", "s", "t">>

\* Zones, as offsets from UTC in hours: the timezone input, and the zone of
\* the process, which moment(x) without tz() uses.
Timezones == {-6, 0, 9}

LocalZones == {-6, 0}

\* The clock at the start of the run: 2024-03-01T02:00Z
Clocks == {19783 * 24 + 2}

\* published_at of a post, in hours relative to the clock
PublishedOffsets == {-168, -144, -3, 0, 24}

\* post.tags: null, no tag, one tag, two tags
TagLists == {Null, <<>>, <<[name |-> TagA]>>, <<[name |-> TagA], [name |-> TagB]>>}

\* The i-th post of a browse response; its title is its place in the response,
\* and a falsy feature_image is <<>>.
Post(i, at, tgs) ==
    [ title         |-> i,
      published_at  |-> at,
      tags          |-> tgs,
      feature_image |-> IF i % 2 = 0 THEN <<"image", i>> ELSE <<>>,
      html          |-> <<"html", i>>,
      excerpt       |-> <<"excerpt", i>>,
      url           |-> <<"url", i>> ]

\* The post lists a browse response can carry
PostLists(clock) ==
    UNION { { [i \in 1..n |-> Post(i, clock + f[i][1], f[i][2])] :
                f \in [1..n -> PublishedOffsets \X TagLists] } : n \in 0..MaxPosts }

\* The error lists of an unsuccessful response, and the text of a thrown error
ErrorLists == { <<>>, <<"e1", "e2">> }

ThrownErrors == { "Error: network" }

Slugs == { "digest-slug" }

------------------------------------------------------------------------------
\* The program

VARIABLES
    period,             \* core.getInput("period")
    excludedTagsInput,  \* core.getInput("excluded_tags")
    excludedTags,       \* excludedTagsInput.split(",").map(trim)
    timezone,           \* core.getInput("timezone"), as an offset
    localZone,          \* the zone of the process
    fullArticle,        \* core.getInput("full_article") is "true"
    clock,              \* the instant the run starts at
    pc,                 \* "start", "browsing", "adding", "done"
    startDate,          \* run's startDate (<<>> while undefined)
    start,              \* generateDigests' start
    end,                \* generateDigests' end
    browseResult,       \* how the browse call ended: "none", "ok", "errors", "throw"
    posts,              \* what fetchPosts returned
    windowPosts,        \* filteredPosts after the window filter
    filteredPosts,      \* filteredPosts after the tag filter and the sort
    markdown,           \* generateMarkdownDigest's result
    addRequests,        \* the arguments of the api.posts.add calls, in order
    addResult,          \* how the add call ended: "none", "ok", "errors", "throw"
    calls,              \* the API calls and their completions, in order
    failures,           \* the messages of core.setFailed, in order
    output              \* the "result" output (<<>> while not set)

vars ==
    << period, excludedTagsInput, excludedTags, timezone, localZone, fullArticle,
       clock, pc, startDate, start, end, browseResult, posts, windowPosts,
       filteredPosts, markdown, addRequests, addResult, calls, failures, output >>

config == << period, excludedTagsInput, excludedTags, timezone, localZone, fullArticle, clock >>

\* moment(x): an instant shown in the zone of the process
Moment(t, zone) == [valid |-> TRUE, t |-> t, zone |-> zone]

isPeriod(p) == toLowerCase(p) = Str_daily \/ toLowerCase(p) = Str_weekly

\* The title input left unset
title(p) == Capitalize(p) \o <<" Digest">>

\* Variant of RunPrologue: the setFailed and the return are skipped.
RunPrologue_else(p, today) ==
    IF isPeriod(p) THEN [failure |-> <<>>, startDate |-> today]
    ELSE [failure |-> <<>>, startDate |-> IF MatchesDateRegex(p) THEN p ELSE <<>>]

\* run, lines 187-196: the failure signalled there (<<>> when none is) and
\* startDate.  The setFailed and the return of the else branch follow the
\* regex test whatever its result.
RunPrologue(p, today) ==
    IF isPeriod(p) THEN [failure |-> <<>>, startDate |-> today]
    ELSE [ failure   |-> <<"Invalid date format: ">> \o p,
           startDate |-> IF MatchesDateRegex(p) THEN p ELSE <<>> ]

\* generateDigests, lines 93-100: start
WindowStart(sd, p, tz, local) ==
    IF toLowerCase(p) = Str_weekly
    THEN AddDays(AddDays(ParseDate(sd, local), -7), 1)
    ELSE StartOfDay(ParseDate(sd, tz))

\* generateDigests, lines 96, 99, 102: end
WindowEnd(st, p) ==
    IF toLowerCase(p) = Str_weekly
    THEN StartOfDay(AddDays(st, 7))
    ELSE StartOfDay(AddDays(st, 1))

pubDate(post, tz, local) == StartOfDay(InZone(Moment(post.published_at, local), tz))

\* Variant of InWindow: the end of the window is included.
InWindow_inclusiveEnd(post, st, en, tz, local) ==
    /\ isSameOrAfter(pubDate(post, tz, local), st)
    /\ ~isAfter(pubDate(post, tz, local), en)

\* The predicate of the first filter
InWindow(post, st, en, tz, local) ==
    /\ isSameOrAfter(pubDate(post, tz, local), st)
    /\ isBefore(pubDate(post, tz, local), en)

\* Variant of NotExcluded: some instead of every.
NotExcluded_some(post, excl) ==
    \/ post.tags = Null
    \/ \E i \in 1..Len(post.tags) : ~includes(excl, post.tags[i].name)

\* The predicate of the second filter
NotExcluded(post, excl) ==
    \/ post.tags = Null
    \/ \A i \in 1..Len(post.tags) : ~includes(excl, post.tags[i].name)

------------------------------------------------------------------------------
\* filteredPosts.sort(comparefn), as V8 sorts an array of fewer than 64
\* elements: the first run is found (and reversed when it descends), and the
\* rest is inserted into it by binary insertion.

\* (a, b) => moment(a.published_at).isAfter(moment(b.published_at)) ? 1 : -1
Compare(a, b, local) ==
    IF isAfter(Moment(a.published_at, local), Moment(b.published_at, local)) THEN 1 ELSE -1

Reverse(arr) == [i \in 1..Len(arr) |-> arr[Len(arr) + 1 - i]]

\* CountAndMakeRun: the length of the run that starts the array
RECURSIVE RunLength(_, _, _, _)
RunLength(arr, idx, isDescending, local) ==
    IF idx > Len(arr) THEN idx - 1
    ELSE LET order == Compare(arr[idx], arr[idx - 1], local)
         IN  IF (isDescending /\ order >= 0) \/ (~isDescending /\ order < 0)
             THEN idx - 1
             ELSE RunLength(arr, idx + 1, isDescending, local)

\* BinaryInsertionSort: where the pivot goes among arr[left .. right - 1]
RECURSIVE InsertionPoint(_, _, _, _, _)
InsertionPoint(arr, pivot, left, right, local) ==
    IF left >= right THEN left
    ELSE LET mid == left + ((right - left) \div 2)
         IN  IF Compare(pivot, arr[mid], local) < 0
             THEN InsertionPoint(arr, pivot, left, mid, local)
             ELSE InsertionPoint(arr, pivot, mid + 1, right, local)

RECURSIVE BinaryInsertionSort(_, _, _)
BinaryInsertionSort(arr, startIdx, local) ==
    IF startIdx > Len(arr) THEN arr
    ELSE LET pivot == arr[startIdx]
             left  == InsertionPoint(arr, pivot, 1, startIdx, local)
             next  == SubSeq(arr, 1, left - 1) \o <<pivot>>
                        \o SubSeq(arr, left, startIdx - 1)
                        \o SubSeq(arr, startIdx + 1, Len(arr))
         IN  BinaryInsertionSort(next, startIdx + 1, local)

sort(arr, local) ==
    IF Len(arr) < 2 THEN arr
    ELSE LET isDescending == Compare(arr[2], arr[1], local) < 0
             runLength    == RunLength(arr, 3, isDescending, local)
             made         == IF isDescending
                             THEN Reverse(SubSeq(arr, 1, runLength))
                                    \o SubSeq(arr, runLength + 1, Len(arr))
                             ELSE arr
         IN  BinaryInsertionSort(made, runLength + 1, local)

------------------------------------------------------------------------------
\* generateMarkdownDigest: the markdown is the sequence of the texts appended
\* to it, one per post, each the sequence of its pieces; the empty string is
\* <<>>.

PostBlock(post, full, local) ==
    << "## ", post.title, "\n",
       "**Date:** ", FormatDate(Moment(post.published_at, local)), "\n\n" >>
    \o (IF post.feature_image # <<>>
        THEN << "![Image](", post.feature_image, ")\n\n" >>
        ELSE <<>>)
    \o (IF full
        THEN << post.html, "\n\n", "[View article](", post.url, ")\n\n" >>
        ELSE << post.excerpt, "...\n\n", "[Read more](", post.url, ")\n\n" >>)

RECURSIVE MarkdownOf(_, _, _)
MarkdownOf(arr, full, local) ==
    IF Len(arr) = 0 THEN <<>>
    ELSE <<PostBlock(Head(arr), full, local)>> \o MarkdownOf(Tail(arr), full, local)

\* Variant of generateMarkdownDigest: a placeholder text when there is no post.
generateMarkdownDigest_placeholder(arr, full, local) ==
    IF Len(arr) = 0 THEN <<<<"No posts">>>> ELSE MarkdownOf(arr, full, local)

generateMarkdownDigest(arr, full, local) == MarkdownOf(arr, full, local)

\* converter.makeHtml: showdown returns a falsy text as it is, and the
\* conversion of any other text is left uninterpreted.
makeHtml(md) == IF md = <<>> THEN <<>> ELSE <<[showdown |-> md]>>

\* generateDigests, lines 137-142
formattedDate(st, p) ==
    IF toLowerCase(p) = Str_weekly
    THEN FormatMD(st) \o <<" - ">> \o FormatMD(AddDays(st, 6))
    ELSE FormatMD(st)

\* The argument of api.posts.add, lines 153-161
AddRequest(md, st, p) ==
    [ title  |-> title(p) \o <<" (">> \o formattedDate(st, p) \o <<")">>,
      html   |-> makeHtml(md),
      tags   |-> [i \in 1..Len(split(tags)) |-> [name |-> trim(split(tags)[i])]],
      status |-> "draft",
      source |-> "html" ]

\* errors.length > 0 ? errors.join(",") : "Unknown error"
ErrorText(errors) == IF Len(errors) > 0 THEN join(errors) ELSE <<"Unknown error">>

------------------------------------------------------------------------------
\* Actions

Init ==
    /\ period \in Periods
    /\ excludedTagsInput \in ExcludedTagsInputs
    /\ excludedTags = SplitTrim(excludedTagsInput)
    /\ timezone \in Timezones
    /\ localZone \in LocalZones
    /\ fullArticle \in BOOLEAN
    /\ clock \in Clocks
    /\ pc = "start"
    /\ startDate = <<>>
    /\ start = InvalidMoment
    /\ end = InvalidMoment
    /\ browseResult = "none"
    /\ posts = <<>>
    /\ windowPosts = <<>>
    /\ filteredPosts = <<>>
    /\ markdown = <<>>
    /\ addRequests = <<>>
    /\ addResult = "none"
    /\ calls = <<>>
    /\ failures = <<>>
    /\ output = <<>>

\* run, and generateDigests up to the await of fetchPosts
Run ==
    /\ pc = "start"
    /\ LET today == FormatDate(InZone(Moment(clock, localZone), timezone))
           r     == RunPrologue(period, today)
       IN  /\ startDate' = r.startDate
           /\ IF r.failure # <<>>
              THEN /\ failures' = Append(failures, r.failure)
                   /\ pc' = "done"
                   /\ UNCHANGED <<start, end, calls>>
              ELSE IF ~isPeriod(period) /\ r.startDate = <<>>
              THEN /\ failures' = Append(failures,
                         <<"Please provide a period (Daily or Weekly) or a start date.">>)
                   /\ pc' = "done"
                   /\ UNCHANGED <<start, end, calls>>
              ELSE /\ start' = WindowStart(r.startDate, period, timezone, localZone)
                   /\ end' = WindowEnd(WindowStart(r.startDate, period, timezone, localZone), period)
                   /\ calls' = Append(calls, "browse")
                   /\ pc' = "browsing"
                   /\ UNCHANGED failures
    /\ UNCHANGED <<config, browseResult, posts, windowPosts, filteredPosts, markdown,
                   addRequests, addResult, output>>

\* generateDigests from the return of fetchPosts to the await of api.posts.add
Digest(fetched) ==
    LET inWindow == SelectSeq(fetched, LAMBDA post : InWindow(post, start, end, timezone, localZone))
        kept     == SelectSeq(inWindow, LAMBDA post : NotExcluded(post, excludedTags))
        sorted   == sort(kept, localZone)
        md       == generateMarkdownDigest(sorted, fullArticle, localZone)
    IN  /\ posts' = fetched
        /\ windowPosts' = inWindow
        /\ filteredPosts' = sorted
        /\ markdown' = md
        /\ addRequests' = Append(addRequests, AddRequest(md, start, period))
        /\ calls' = calls \o <<"browse done", "add">>
        /\ pc' = "adding"
        /\ UNCHANGED <<config, startDate, start, end, addResult, output>>

\* fetchPosts: posts.success
BrowseSucceeds ==
    /\ pc = "browsing"
    /\ \E data \in PostLists(clock) :
        /\ browseResult' = "ok"
        /\ UNCHANGED failures
        /\ Digest(data)

\* fetchPosts: the response is not a success
BrowseReturnsErrors ==
    /\ pc = "browsing"
    /\ \E errors \in ErrorLists :
        /\ browseResult' = "errors"
        /\ failures' = Append(failures,
              <<"Failed to fetch posts from Ghost API: ">> \o ErrorText(errors))
        /\ Digest(<<>>)

\* fetchPosts: the call throws
BrowseThrows ==
    /\ pc = "browsing"
    /\ \E error \in ThrownErrors :
        /\ browseResult' = "throw"
        /\ failures' = Append(failures, <<"Failed to fetch posts from Ghost API: ", error>>)
        /\ Digest(<<>>)

\* api.posts.add: response.success
AddSucceeds ==
    /\ pc = "adding"
    /\ \E slug \in Slugs : output' = <<"Newsletter post created: ", slug>>
    /\ addResult' = "ok"
    /\ calls' = Append(calls, "add done")
    /\ pc' = "done"
    /\ UNCHANGED <<config, startDate, start, end, browseResult, posts, windowPosts,
                   filteredPosts, markdown, addRequests, failures>>

\* Variant of AddReturnsErrors: the call is made again.
AddReturnsErrors_retry ==
    /\ pc = "adding"
    /\ Len(addRequests) < 3
    /\ \E errors \in ErrorLists :
         failures' = Append(failures,
            <<"Failed to create newsletter post: ">> \o ErrorText(errors))
    /\ addResult' = "errors"
    /\ addRequests' = Append(addRequests, addRequests[1])
    /\ calls' = calls \o <<"add done", "add">>
    /\ UNCHANGED <<config, pc, startDate, start, end, browseResult, posts, windowPosts,
                   filteredPosts, markdown, output>>

\* api.posts.add: the response is not a success
AddReturnsErrors ==
    /\ pc = "adding"
    /\ \E errors \in ErrorLists :
         failures' = Append(failures,
            <<"Failed to create newsletter post: ">> \o ErrorText(errors))
    /\ addResult' = "errors"
    /\ calls' = Append(calls, "add done")
    /\ pc' = "done"
    /\ UNCHANGED <<config, startDate, start, end, browseResult, posts, windowPosts,
                   filteredPosts, markdown, addRequests, output>>

\* api.posts.add: the call throws
AddThrows ==
    /\ pc = "adding"
    /\ \E error \in ThrownErrors :
         failures' = Append(failures, <<"Failed to create newsletter post: ", error>>)
    /\ addResult' = "throw"
    /\ calls' = Append(calls, "add done")
    /\ pc' = "done"
    /\ UNCHANGED <<config, startDate, start, end, browseResult, posts, windowPosts,
                   filteredPosts, markdown, addRequests, output>>

Next ==
    \/ Run
    \/ BrowseSucceeds
    \/ BrowseReturnsErrors
    \/ BrowseThrows
    \/ AddSucceeds
    \/ AddReturnsErrors
    \/ AddThrows

Spec == Init /\ [][Next]_vars

------------------------------------------------------------------------------
\* What the claims speak of

Count(arr, x) == Cardinality({i \in DOMAIN arr : arr[i] = x})

Fetched == pc \in {"adding", "done"}

\* The period input is a literal date that is on the calendar
IsCalendarDate(p) == ParseDate(p, 0).valid

\* A failure that reports the period input
IsConfigurationFailure(msg) ==
    msg[1] \in { "Invalid date format: ",
                 "Please provide a period (Daily or Weekly) or a start date." }

\* The publish date of a post normalized to the configured timezone, as a day
\* number and as "YYYY-MM-DD"
PublishDay(post) == (post.published_at + timezone) \div 24

PublishDate(post) == FormatDate(Moment(post.published_at, timezone))

\* The day number of the anchor date
AnchorDay == DayOf(ParseDate(startDate, timezone))

PassedWindow(post) == \E j \in DOMAIN windowPosts : windowPosts[j] = post

Rendered(post) == \E j \in DOMAIN markdown : markdown[j][2] = post.title

TagNames(post) == IF post.tags = Null THEN {} ELSE {post.tags[k].name : k \in DOMAIN post.tags}

ExclusionSet == {excludedTags[k] : k \in DOMAIN excludedTags}

------------------------------------------------------------------------------
\* C1: when the period input is a literal calendar date, the run uses it as
\* the anchor and generates the digest (browse-posts and create-post are each
\* called) instead of ending with a configuration failure.
C1_ExplicitDateGeneratesDigest ==
    (pc = "done" /\ ~isPeriod(period) /\ IsCalendarDate(period))
        => /\ startDate = period
           /\ Count(calls, "browse") = 1
           /\ Count(calls, "add") = 1
           /\ \A i \in DOMAIN failures : ~IsConfigurationFailure(failures[i])

\* C2: when the browse-posts call fails, a failure message carrying the error
\* text is signalled and create-post is never called.
C2_FetchFailureStopsRun ==
    browseResult \in {"errors", "throw"}
        => /\ Len(failures) >= 1
           /\ failures[1][1] = "Failed to fetch posts from Ghost API: "
           /\ Count(calls, "add") = 0
           /\ addRequests = <<>>

\* C3: in a weekly run anchored at D, a fetched post passes the window filter
\* exactly when its publish date in the configured timezone is in [D-6, D].
C3_WeeklyWindow ==
    (Fetched /\ browseResult = "ok" /\ toLowerCase(period) = Str_weekly)
        => \A i \in DOMAIN posts :
              PassedWindow(posts[i])
                 <=> (AnchorDay - 6 <= PublishDay(posts[i]) /\ PublishDay(posts[i]) <= AnchorDay)

\* C4: in a daily run anchored at D, a fetched post passes the window filter
\* exactly when its publish date in the configured timezone is D.
C4_DailyWindow ==
    (Fetched /\ browseResult = "ok" /\ toLowerCase(period) = Str_daily)
        => \A i \in DOMAIN posts :
              PassedWindow(posts[i]) <=> PublishDate(posts[i]) = startDate

C4_Witness ==
    /\ Fetched /\ browseResult = "ok" /\ toLowerCase(period) = Str_daily
    /\ timezone # localZone
    /\ \E i \in DOMAIN posts : PassedWindow(posts[i]) /\ posts[i].published_at # clock
    /\ \E i \in DOMAIN posts : ~PassedWindow(posts[i]) /\ PublishDay(posts[i]) = AnchorDay + 1

\* C5: no post passed to the renderer carries a tag whose name is in the
\* exclusion set, and a post whose tags are null is never removed by the tag
\* exclusion, whatever the excluded_tags input is.
C5_ExcludedTagsNeverRendered ==
    Fetched
        => /\ \A i \in DOMAIN filteredPosts :
                 /\ TagNames(filteredPosts[i]) \cap ExclusionSet = {}
                 /\ Rendered(filteredPosts[i])
           /\ \A i \in DOMAIN posts :
                 Rendered(posts[i]) => TagNames(posts[i]) \cap ExclusionSet = {}
           /\ \A i \in DOMAIN windowPosts :
                 windowPosts[i].tags = Null => Rendered(windowPosts[i])

C5_Witness ==
    /\ Fetched
    /\ TagB \in ExclusionSet
    /\ \E i \in DOMAIN windowPosts :
          TagNames(windowPosts[i]) = {TagA, TagB} /\ ~Rendered(windowPosts[i])
    /\ \E i \in DOMAIN windowPosts :
          windowPosts[i].tags = Null /\ Rendered(windowPosts[i])

\* C6: the rendered digest lists the posts in non-decreasing order of publish
\* instant, and posts of equal publish instant in their fetch order.
C6_SortedAndStable ==
    Fetched
        => \A i, j \in DOMAIN markdown :
              i < j =>
                 LET a == posts[markdown[i][2]]
                     b == posts[markdown[j][2]]
                 IN  /\ a.published_at <= b.published_at
                     /\ a.published_at = b.published_at => a.title < b.title

\* C7: a period input that is neither a period word nor a date on the calendar
\* ends the run with a configuration failure, and no API call is made.
C7_InvalidPeriodFailsBeforeNetwork ==
    (pc # "start" /\ ~isPeriod(period) /\ ~IsCalendarDate(period))
        => /\ pc = "done"
           /\ Len(failures) = 1
           /\ IsConfigurationFailure(failures[1])
           /\ calls = <<>>
           /\ addRequests = <<>>
           /\ output = <<>>

C7_Witness ==
    /\ pc = "done"
    /\ MatchesDateRegex(period)
    /\ ~IsCalendarDate(period)
    /\ Len(failures) = 1

\* C8: when the fetch succeeds and every fetched post is filtered out, nothing
\* fails before the submission: the digest is the empty string and create-post
\* is called exactly once, with an empty body and as a draft; a failure, if
\* any, is that of the create-post call.
C8_EmptyDigestStillSubmitted ==
    (Fetched /\ browseResult = "ok" /\ filteredPosts = <<>>)
        => /\ markdown = <<>>
           /\ Count(calls, "add") = 1
           /\ Len(addRequests) = 1
           /\ addRequests[1].html = <<>>
           /\ addRequests[1].status = "draft"
           /\ failures # <<>> => (pc = "done" /\ addResult \in {"errors", "throw"})
           /\ addResult = "ok" => output # <<>>

C8_Witness ==
    /\ pc = "done" /\ browseResult = "ok" /\ addResult = "ok"
    /\ Len(posts) = 2
    /\ Len(windowPosts) = 1
    /\ filteredPosts = <<>>
    /\ output # <<>>

\* C9: browse-posts and create-post are each called at most once, create-post
\* only after browse-posts has returned; when create-post fails the run is
\* over with a failure signalled, no result output and no further API call.
C9_CallsOnceInOrder ==
    /\ Count(calls, "browse") <= 1
    /\ Count(calls, "add") <= 1
    /\ Len(addRequests) = Count(calls, "add")
    /\ \A i \in DOMAIN calls :
          calls[i] = "add" => \E j \in 1..(i - 1) : calls[j] = "browse done"
    /\ addResult \in {"errors", "throw"}
          => /\ pc = "done"
             /\ failures # <<>>
             /\ failures[Len(failures)][1] = "Failed to create newsletter post: "
             /\ output = <<>>
             /\ calls = <<"browse", "browse done", "add", "add done">>

C9_Witness ==
    /\ pc = "done"
    /\ addResult = "errors"
    /\ browseResult = "ok"
    /\ Len(filteredPosts) = 2

\* C10: a finished run has exactly one outcome: the result output is set and
\* no failure was signalled, or a failure was signalled and the result output
\* is not set.
C10_ExactlyOneOutcome ==
    pc = "done"
        => \/ (output # <<>> /\ failures = <<>>)
           \/ (output = <<>> /\ failures # <<>>)

====
